---- MODULE Spec2Model ----
(***************************************************************************)
(* A model of the evenio storage and filter core:                          *)
(*   - ErasedVec      (src/src/erased_vec.rs), the type-erased column,      *)
(*   - Components     (src/src/component.rs), the component registry,       *)
(*   - BoolExpr       (src/src/bool_expr.rs), the DNF filter algebra,       *)
(*   - the event cascade of examples/hello_world.rs.                        *)
(* Each part has its own next-state relation and specification; the        *)
(* variables of the other parts stay at their initial values.              *)
(***************************************************************************)
EXTENDS Integers, Sequences, FiniteSets, Bags, TLC

VARIABLES
    vecs,       \* ErasedVec: the constructed columns, a sequence of ErasedVec records
    alive,      \* ErasedVec: alive[c] is FALSE once column c has been dropped
    nextVal,    \* ErasedVec: identity given to the next value written into a pushed slot
    pushes,     \* ErasedVec: number of values written into pushed slots so far
    drops,      \* ErasedVec: drops[v] = number of destructor calls made on value v
    unwound,    \* ErasedVec: the bag of values a destructor call of swap_remove unwound on
    vop,        \* ErasedVec: the last operation, with its arguments
    components, \* Components: the registry, [infos |-> Slab, by_typeid |-> TypeIdMap]
    issued,     \* Components: every id a registration has returned so far
    rop,        \* Components: the last operation, with its arguments and result
    systems,    \* World: the registered systems, in registration order
    ev_stack,   \* World: the stack of pending events
    call_stack, \* World: the dispatches and systems that have not yet returned
    ev_count,   \* World: events of each type sent since the last top-level send
    sent,       \* World: the events sent since the last top-level send
    log,        \* World: the system invocations since the last top-level send
    wpc,        \* World: main's position, [at |-> "idle" | "send", sends |-> n, top |-> event]
    expr,       \* BoolExpr: the expression an operation is called on (self)
    arg,        \* BoolExpr: the operation's argument (other)
    result,     \* BoolExpr: the expression the operation returned
    with_value, \* BoolExpr: the variable with / without was called with
    answer,     \* BoolExpr: the bool is_disjoint returned
    bop         \* BoolExpr: "init", or the operation applied

vecVars == <<vecs, alive, nextVal, pushes, drops, unwound, vop>>
regVars == <<components, issued, rop>>
worldVars == <<systems, ev_stack, call_stack, ev_count, sent, log, wpc>>
boolVars == <<expr, arg, result, with_value, answer, bop>>

vars == <<vecVars, regVars, worldVars, boolVars>>

----------------------------------------------------------------------------
(* Bounds *)

\* Number of values pushed in a run.
MaxValues == 2
\* Size in bytes of the non-zero-sized element layout.
ElemSize == 8
\* Number of swap_remove calls in a run whose destructor unwinds.
MaxUnwinds == 2
\* Number of slab entries the registry may grow to.
MaxComponents == 3
\* Number of top-level World::send calls in a run.
MaxSends == 2
\* Number of dispatches and systems that may be active at once.
MaxDepth == 8
\* Number of clauses of the operands of a BoolExpr operation, taken together.
MaxClauses == 3

----------------------------------------------------------------------------
(* ErasedVec *)

\* usize::MAX, the capacity of a column of zero-sized elements.  TLC's integers
\* are 32 bits wide, so the largest of them stands for it; the model only ever
\* subtracts len from it.
USIZE_MAX == 2147483647

\* Content of a slot that holds no initialized bytes (a fresh allocation), and
\* what reading a zero-sized slot yields.
NoBytes == 0

Max(a, b) == IF a >= b THEN a ELSE b

\* ErasedVec::new
new(layout, drop) ==
    [ elem_layout |-> layout,
      len         |-> 0,
      cap         |-> IF layout = 0 THEN USIZE_MAX ELSE 0,
      data        |-> << >>,
      drop        |-> drop ]

\* The address of element idx, as an offset from the data pointer.
ptr_add(v, idx) == v.elem_layout * idx

\* The bytes at element idx: the identity of the value whose bytes lie there.
read(v, idx) == IF v.elem_layout = 0 THEN NoBytes ELSE v.data[idx + 1]

\* ptr::copy_nonoverlapping(src, dst, size) within one buffer.
copy_within(v, src, dst) ==
    IF v.elem_layout = 0 THEN v.data
    ELSE [v.data EXCEPT ![dst + 1] = v.data[src + 1]]

\* reserve as it would be with `let new_cap = required_cap`.
reserve_exact(v, additional) ==
    LET available == v.cap - v.len IN
    IF additional > available
    THEN LET required_cap == v.len + additional
         IN  [v EXCEPT !.data = v.data \o [i \in 1..(required_cap - v.cap) |-> NoBytes],
                       !.cap  = required_cap]
    ELSE v

\* ErasedVec::reserve: alloc / realloc keeps the old bytes and appends
\* uninitialized ones.
reserve(v, additional) ==
    LET available == v.cap - v.len IN
    IF additional > available
    THEN LET required_cap == v.len + additional
             new_cap      == Max(v.cap * 2, required_cap)
         IN  [v EXCEPT !.data = v.data \o [i \in 1..(new_cap - v.cap) |-> NoBytes],
                       !.cap  = new_cap]
    ELSE v

\* push as it would be without `self.reserve(1)`.
push_no_reserve(v) == [v EXCEPT !.len = v.len + 1]

\* ErasedVec::push: returns the column with the slot at the old len reserved.
push(v) == [reserve(v, 1) EXCEPT !.len = v.len + 1]

\* The caller's write through the handle push returned.
write(v, idx, val) ==
    IF v.elem_layout = 0 THEN v ELSE [v EXCEPT !.data[idx + 1] = val]

\* ErasedVec::swap_remove_no_drop
swap_remove_no_drop(v, idx) ==
    LET src == ptr_add(v, v.len - 1)
        dst == ptr_add(v, idx)
    IN  [v EXCEPT !.len  = v.len - 1,
                  !.data = IF src # dst THEN copy_within(v, v.len - 1, idx) ELSE v.data]

\* swap_remove as it would be if it called the destructor on src, the last element.
swap_remove_dropped_src(v, idx) ==
    IF v.drop THEN << read(v, v.len - 1) >> ELSE << >>

\* ErasedVec::swap_remove: the values the destructor is called on ...
swap_remove_dropped(v, idx) ==
    IF v.drop THEN << read(v, idx) >> ELSE << >>

\* swap_remove as it would be without the copy of the last element into the hole.
swap_remove_no_copy(v, idx) == [v EXCEPT !.len = v.len - 1]

\* swap_remove when the destructor it calls on dst unwinds: `self.len -= 1` and
\* the copy are not reached, the column is as it was.
swap_remove_unwound(v, idx) == v

\* ... and the column afterwards.
swap_remove(v, idx) ==
    LET src == ptr_add(v, v.len - 1)
        dst == ptr_add(v, idx)
    IN  [v EXCEPT !.len  = v.len - 1,
                  !.data = IF src # dst THEN copy_within(v, v.len - 1, idx) ELSE v.data]

\* transfer_elem as it would be without the ptr::copy_nonoverlapping to dst.
transfer_elem_other_no_copy(v, other, src_idx) == push(other)

\* ErasedVec::transfer_elem: the target after the push and the byte copy ...
transfer_elem_other(v, other, src_idx) ==
    write(push(other), other.len, read(v, src_idx))

\* ... and the source after the compaction.
transfer_elem_self(v, src_idx) == swap_remove_no_drop(v, src_idx)

\* ErasedVec::clear: the values the destructor is called on, in order ...
clear_dropped(v) ==
    IF v.drop THEN [i \in 1..v.len |-> read(v, i - 1)] ELSE << >>

\* ... and the column afterwards.
clear(v) == [v EXCEPT !.len = 0]

\* clear when the destructor of the element at row k unwinds: the destructor
\* calls made, that of row k being the last ...
clear_unwound_dropped(v, k) == SubSeq(clear_dropped(v), 1, k + 1)

\* clear as it would be if it set len to zero after the loop of destructor
\* calls: an unwinding destructor would leave len as it was.
clear_unwound_len_kept(v) == v

\* ... and the column afterwards: of clear, only the statements before the loop
\* have run.
clear_unwound(v) == [v EXCEPT !.len = 0]

\* impl Drop for ErasedVec: clear, then dealloc when the buffer is non-empty.
\* The column is gone afterwards; what is left stands for "no buffer, no fields".
drop_vec(v) == [clear(v) EXCEPT !.data = << >>, !.cap = 0]

\* The destructor calls of one operation, added to the tally.
RECURSIVE record_drops(_, _)
record_drops(tally, called) ==
    IF called = << >> THEN tally
    ELSE record_drops([tally EXCEPT ![Head(called)] = @ + 1], Tail(called))

\* A run has the two columns one transfer_elem call involves, self and other.
Columns == {1, 2}

Cols == 1..Len(vecs)

VecInit ==
    /\ vecs = << >>
    /\ alive = << >>
    /\ nextVal = 1
    /\ pushes = 0
    /\ drops = [v \in 0..MaxValues |-> 0]
    /\ unwound = EmptyBag
    /\ vop = [op |-> "none"]

\* A column is constructed; every column of a run stores the same component
\* type, so they share the element layout and the destructor.
VecNew(layout, drop) ==
    /\ Len(vecs) < Cardinality(Columns)
    /\ Len(vecs) > 0 => (layout = vecs[1].elem_layout /\ drop = vecs[1].drop)
    /\ vecs' = Append(vecs, new(layout, drop))
    /\ alive' = Append(alive, TRUE)
    /\ vop' = [op |-> "new"]
    /\ UNCHANGED <<nextVal, pushes, drops, unwound, regVars, worldVars, boolVars>>

\* push() followed by the caller's write of a new value (tests, lines 252-253).
VecPush(c) ==
    /\ alive[c]
    /\ pushes < MaxValues
    /\ vecs' = [vecs EXCEPT ![c] = write(push(vecs[c]), vecs[c].len, nextVal)]
    /\ nextVal' = IF vecs[c].elem_layout = 0 THEN nextVal ELSE nextVal + 1
    /\ pushes' = pushes + 1
    /\ vop' = [op |-> "push"]
    /\ UNCHANGED <<alive, drops, unwound, regVars, worldVars, boolVars>>

VecSwapRemove(c, idx) ==
    /\ alive[c]
    /\ idx < vecs[c].len
    /\ vecs' = [vecs EXCEPT ![c] = swap_remove(vecs[c], idx)]
    /\ drops' = record_drops(drops, swap_remove_dropped(vecs[c], idx))
    /\ vop' = [op |-> "swap_remove", col |-> c, idx |-> idx]
    /\ UNCHANGED <<alive, nextVal, pushes, unwound, regVars, worldVars, boolVars>>

VecTransferElem(c, o, idx) ==
    /\ c # o
    /\ alive[c] /\ alive[o]
    /\ vecs[c].elem_layout = vecs[o].elem_layout
    /\ idx < vecs[c].len
    /\ vecs' = [vecs EXCEPT ![o] = transfer_elem_other(vecs[c], vecs[o], idx),
                            ![c] = transfer_elem_self(vecs[c], idx)]
    /\ vop' = [op |-> "transfer_elem", col |-> c, other |-> o, idx |-> idx]
    /\ UNCHANGED <<alive, nextVal, pushes, drops, unwound, regVars, worldVars, boolVars>>

VecClear(c) ==
    /\ alive[c]
    /\ vecs' = [vecs EXCEPT ![c] = clear(vecs[c])]
    /\ drops' = record_drops(drops, clear_dropped(vecs[c]))
    /\ vop' = [op |-> "clear"]
    /\ UNCHANGED <<alive, nextVal, pushes, unwound, regVars, worldVars, boolVars>>

VecDrop(c) ==
    /\ alive[c]
    /\ vecs' = [vecs EXCEPT ![c] = drop_vec(vecs[c])]
    /\ drops' = record_drops(drops, clear_dropped(vecs[c]))
    /\ alive' = [alive EXCEPT ![c] = FALSE]
    /\ vop' = [op |-> "drop"]
    /\ UNCHANGED <<nextVal, pushes, unwound, regVars, worldVars, boolVars>>

\* swap_remove, with the destructor of the element at row idx unwinding; the
\* caller catches the panic and keeps the column, the element still in it, so
\* the call can be made again, on the same element or another.
VecSwapRemoveUnwind(c, idx) ==
    /\ alive[c]
    /\ vecs[c].drop
    /\ idx < vecs[c].len
    /\ BagCardinality(unwound) < MaxUnwinds
    /\ vecs' = [vecs EXCEPT ![c] = swap_remove_unwound(vecs[c], idx)]
    /\ drops' = record_drops(drops, swap_remove_dropped(vecs[c], idx))
    /\ unwound' = unwound (+) SetToBag({read(vecs[c], idx)})
    /\ vop' = [op |-> "swap_remove_unwind", col |-> c, idx |-> idx]
    /\ UNCHANGED <<alive, nextVal, pushes, regVars, worldVars, boolVars>>

\* clear, with the destructor of the element at row k unwinding; the caller
\* catches the panic and keeps the column.
VecClearUnwind(c, k) ==
    /\ alive[c]
    /\ vecs[c].drop
    /\ k < vecs[c].len
    /\ vecs' = [vecs EXCEPT ![c] = clear_unwound(vecs[c])]
    /\ drops' = record_drops(drops, clear_unwound_dropped(vecs[c], k))
    /\ vop' = [op |-> "clear_unwind", col |-> c]
    /\ UNCHANGED <<alive, nextVal, pushes, unwound, regVars, worldVars, boolVars>>

\* Drop, with the destructor of the element at row k unwinding out of its call
\* of clear: the dealloc is not reached and the buffer is leaked.
VecDropUnwind(c, k) ==
    /\ alive[c]
    /\ vecs[c].drop
    /\ k < vecs[c].len
    /\ vecs' = [vecs EXCEPT ![c] = clear_unwound(vecs[c])]
    /\ drops' = record_drops(drops, clear_unwound_dropped(vecs[c], k))
    /\ alive' = [alive EXCEPT ![c] = FALSE]
    /\ vop' = [op |-> "drop_unwind", col |-> c]
    /\ UNCHANGED <<nextVal, pushes, unwound, regVars, worldVars, boolVars>>

NextVec ==
    \/ \E layout \in {0, ElemSize}, drop \in BOOLEAN : VecNew(layout, drop)
    \/ \E c \in Cols : VecPush(c)
    \/ \E c \in Cols, idx \in 0..(MaxValues - 1) : VecSwapRemove(c, idx)
    \/ \E c \in Cols, o \in Cols, idx \in 0..(MaxValues - 1) : VecTransferElem(c, o, idx)
    \/ \E c \in Cols : VecClear(c)
    \/ \E c \in Cols : VecDrop(c)

\* reserve(additional), called on its own.
VecReserve(c, additional) ==
    /\ alive[c]
    /\ vecs' = [vecs EXCEPT ![c] = reserve(vecs[c], additional)]
    /\ vop' = [op |-> "reserve"]
    /\ UNCHANGED <<alive, nextVal, pushes, drops, unwound, regVars, worldVars, boolVars>>

\* The arguments reserve is called with: 1, as push does, and one more.
Additional == {1, 2}

\* The operations of a column, reserve among them.
NextVecReserve ==
    \/ \E layout \in {0, ElemSize}, drop \in BOOLEAN : VecNew(layout, drop)
    \/ \E c \in Cols : VecPush(c)
    \/ \E c \in Cols, idx \in 0..(MaxValues - 1) : VecSwapRemove(c, idx)
    \/ \E c \in Cols, o \in Cols, idx \in 0..(MaxValues - 1) : VecTransferElem(c, o, idx)
    \/ \E c \in Cols : VecClear(c)
    \/ \E c \in Cols : VecDrop(c)
    \/ \E c \in Cols, additional \in Additional : VecReserve(c, additional)

\* The operations of a column, with destructors that may unwind: out of
\* swap_remove, clear and Drop, the operations that call them.
NextVecUnwind ==
    \/ \E layout \in {0, ElemSize}, drop \in BOOLEAN : VecNew(layout, drop)
    \/ \E c \in Cols : VecPush(c)
    \/ \E c \in Cols, idx \in 0..(MaxValues - 1) : VecSwapRemove(c, idx)
    \/ \E c \in Cols, o \in Cols, idx \in 0..(MaxValues - 1) : VecTransferElem(c, o, idx)
    \/ \E c \in Cols : VecClear(c)
    \/ \E c \in Cols : VecDrop(c)
    \/ \E c \in Cols, idx \in 0..(MaxValues - 1) : VecSwapRemoveUnwind(c, idx)
    \/ \E c \in Cols, k \in 0..(MaxValues - 1) : VecClearUnwind(c, k)
    \/ \E c \in Cols, k \in 0..(MaxValues - 1) : VecDropUnwind(c, k)

\* tests::swap_remove: let strings = ["aaa", "bbb", "ccc", "ddd"], as the
\* identities of the four values.
strings == << 1, 2, 3, 4 >>

\* The column after the loop of the tests: for s in strings, push and write s.
RECURSIVE pushed(_, _)
pushed(v, vals) ==
    IF vals = << >> THEN v
    ELSE pushed(write(push(v), v.len, Head(vals)), Tail(vals))

\* The states the tests are in before, within and after their loop of pushes:
\* the first n of the strings pushed.  pushes counts the values pushed from
\* here on.
VecTestInit ==
    /\ \E layout \in {0, ElemSize}, drop \in BOOLEAN, n \in 0..Len(strings) :
           /\ vecs = << pushed(new(layout, drop), SubSeq(strings, 1, n)) >>
           /\ nextVal = IF layout = 0 THEN 1 ELSE n + 1
    /\ alive = << TRUE >>
    /\ pushes = 0
    /\ drops = [v \in 0..(Len(strings) + MaxValues) |-> 0]
    /\ unwound = EmptyBag
    /\ vop = [op |-> "none"]

\* The rows of a column of the values of the tests and those pushed after.
TestRows == 0..(Len(strings) + MaxValues - 1)

\* What the tests do to their column, and clear.
NextVecTest ==
    \/ \E c \in Cols : VecPush(c)
    \/ \E c \in Cols, idx \in TestRows : VecSwapRemove(c, idx)
    \/ \E c \in Cols : VecClear(c)
    \/ \E c \in Cols : VecDrop(c)

\* The column of the tests and a second, empty one of the same element type:
\* the two columns of an entity's component in its old and new archetype.
VecTransferInit ==
    /\ \E layout \in {0, ElemSize}, drop \in BOOLEAN :
           vecs = << pushed(new(layout, drop), strings), new(layout, drop) >>
    /\ alive = << TRUE, TRUE >>
    /\ nextVal = Len(strings) + 1
    /\ pushes = 0
    /\ drops = [v \in 0..Len(strings) |-> 0]
    /\ unwound = EmptyBag
    /\ vop = [op |-> "none"]

\* Elements move between the two columns, in either direction.
NextVecTransfer ==
    \/ \E c \in Cols, o \in Cols, idx \in TestRows : VecTransferElem(c, o, idx)

(* Claims about ErasedVec *)

AllDropped == Len(vecs) > 0 /\ \A c \in Cols : ~alive[c]

\* C1: in columns with a destructor, no value is ever destroyed twice, bytes that
\* hold no value are never destroyed, and once every column has been dropped
\* each pushed value has been destroyed exactly once.  Zero-sized values have
\* no bytes to tell them apart, so for them the calls are counted.
C1_EachValueDroppedOnce ==
    (Len(vecs) > 0 /\ vecs[1].drop) =>
        IF vecs[1].elem_layout = 0
        THEN /\ drops[NoBytes] <= pushes
             /\ AllDropped => drops[NoBytes] = pushes
        ELSE /\ drops[NoBytes] = 0
             /\ \A v \in 1..MaxValues : drops[v] <= 1
             /\ AllDropped => \A v \in 1..(nextVal - 1) : drops[v] = 1

\* C1 witness: both columns dropped after every value was pushed, each value
\* destroyed once.
C1_Witness ==
    /\ Len(vecs) = Cardinality(Columns)
    /\ AllDropped
    /\ vecs[1].drop /\ vecs[1].elem_layout # 0
    /\ pushes = MaxValues
    /\ \A v \in 1..MaxValues : drops[v] = 1
    /\ vop.op = "drop"

\* The elements of a column, rows 0 to len - 1.
Elems(v) == [i \in 1..v.len |-> read(v, i - 1)]

\* What swap_remove and transfer_elem promise about the column they compact:
\* one element fewer, the former last element at row unless row was the last
\* index, every other remaining element where it was.
Compacted(v, w, row) ==
    /\ w.len = v.len - 1
    /\ row < v.len - 1 => read(w, row) = read(v, v.len - 1)
    /\ \A i \in 0..(w.len - 1) : i # row => read(w, i) = read(v, i)

\* C14: swap_remove(row) calls the destructor, if there is one, on the element
\* at row and on no other, makes the column one element shorter, puts the former
\* last element at row unless row was the last index, and leaves every other
\* remaining element at its index.
C14_SwapRemoveFrame ==
    [][ vop'.op = "swap_remove" =>
          LET v   == vecs[vop'.col]
              w   == vecs'[vop'.col]
              row == vop'.idx
          IN  /\ drops' = IF v.drop THEN [drops EXCEPT ![read(v, row)] = @ + 1]
                                    ELSE drops
              /\ Compacted(v, w, row)
      ]_vars

\* C14 witness: the first call of tests::swap_remove, swap_remove(1) on the four
\* strings: "bbb" destroyed, "ddd" at row 1, "aaa" and "ccc" where they were.
C14_Witness ==
    /\ vop = [op |-> "swap_remove", col |-> 1, idx |-> 1]
    /\ vecs[1].drop /\ vecs[1].elem_layout # 0
    /\ Elems(vecs[1]) = << 1, 4, 3 >>
    /\ drops[2] = 1
    /\ \A v \in {1, 3, 4} : drops[v] = 0

\* C16: transfer_elem(other, row) makes other one element longer, its last
\* element the value that was at row in self and its other elements unchanged;
\* self is compacted as by swap_remove, and no destructor is called.
C16_TransferElemFrame ==
    [][ vop'.op = "transfer_elem" =>
          LET v   == vecs[vop'.col]
              w   == vecs'[vop'.col]
              o   == vecs[vop'.other]
              p   == vecs'[vop'.other]
              row == vop'.idx
          IN  /\ p.len = o.len + 1
              /\ read(p, o.len) = read(v, row)
              /\ \A i \in 0..(o.len - 1) : read(p, i) = read(o, i)
              /\ Compacted(v, w, row)
              /\ drops' = drops
      ]_vars

\* C16 witness: row 0 of three elements transferred to a column that held one:
\* "ddd" went over first, then "aaa" from << aaa, bbb, ccc >>.
C16_Witness ==
    /\ vop = [op |-> "transfer_elem", col |-> 1, other |-> 2, idx |-> 0]
    /\ vecs[1].drop /\ vecs[1].elem_layout # 0
    /\ Elems(vecs[1]) = << 3, 2 >>
    /\ Elems(vecs[2]) = << 4, 1 >>
    /\ \A v \in DOMAIN drops : drops[v] = 0

\* The destructor calls made on value v that did not unwind out of swap_remove:
\* those of clear and Drop, whether they unwound or not, and those of a
\* swap_remove that completed and removed the value.
CallsNotUnwoundFromSwapRemove(v) ==
    drops[v] - CopiesIn(v, unwound)

\* C17: clear has set the length to zero when a destructor unwinds out of it
\* or out of Drop, so whatever clear or Drop comes later, it calls no value's
\* destructor a second time (on zero-sized values: no more calls than values
\* pushed), and none on bytes that hold no value.  A destructor that unwinds
\* out of swap_remove leaves its value in the column, where swap_remove may
\* call it again and clear or Drop calls it once more: the calls that unwound
\* out of swap_remove are counted apart from these.
C17_NoDoubleDropAfterUnwind ==
    /\ vop.op \in {"clear_unwind", "drop_unwind"} => vecs[vop.col].len = 0
    /\ (Len(vecs) > 0 /\ vecs[1].drop) =>
           IF vecs[1].elem_layout = 0
           THEN CallsNotUnwoundFromSwapRemove(NoBytes) <= pushes
           ELSE /\ drops[NoBytes] = 0
                /\ \A v \in 1..MaxValues : CallsNotUnwoundFromSwapRemove(v) <= 1

\* C17 witness: every column dropped after a destructor unwound out of clear or
\* Drop and none out of swap_remove: the value it was called on destroyed
\* once, a later one of the same clear never.
C17_Witness ==
    /\ AllDropped
    /\ vop.op = "drop"
    /\ vecs[1].drop /\ vecs[1].elem_layout # 0
    /\ pushes = MaxValues
    /\ unwound = EmptyBag
    /\ \E v \in 1..MaxValues : drops[v] = 1
    /\ \E v \in 1..MaxValues : drops[v] = 0

\* C18: a column of non-zero-sized elements starts with capacity 0; a push onto
\* a full column makes the capacity max(2 * cap, len + 1), 1, 2, 4, 8 from
\* empty, and any other push leaves it; a column of zero-sized elements never
\* gets a buffer, only its length changes.
C18_GrowthPolicy ==
    /\ [](\A drop \in BOOLEAN : new(ElemSize, drop).cap = 0)
    /\ [](\A c \in Cols :
             (alive[c] /\ vecs[c].elem_layout # 0) =>
                 \/ vecs[c].cap = 0
                 \/ \E e \in 0..(Len(strings) + MaxValues) : vecs[c].cap = 2 ^ e)
    /\ [][ vop'.op = "push" =>
             \A c \in Cols :
                 LET v == vecs[c]
                     w == vecs'[c]
                 IN  w # v =>
                         IF v.elem_layout = 0
                         THEN w = [v EXCEPT !.len = v.len + 1] /\ w.data = << >>
                         ELSE /\ w.len = v.len + 1
                              /\ w.cap = IF v.len = v.cap
                                         THEN Max(2 * v.cap, v.len + 1)
                                         ELSE v.cap
         ]_vars

\* C18 witness: the fifth push onto a column of four elements in a buffer of four.
C18_Witness ==
    /\ vop.op = "push"
    /\ vecs[1].elem_layout # 0
    /\ vecs[1].len = 5
    /\ vecs[1].cap = 8

\* C22: every column has len <= cap, and when its elements are not zero-sized
\* its buffer holds cap elements, so that every row below len lies inside it.
C22_LenWithinCap ==
    \A c \in Cols :
        /\ vecs[c].len <= vecs[c].cap
        /\ vecs[c].elem_layout # 0 =>
               /\ Len(vecs[c].data) = vecs[c].cap
               /\ \A idx \in 0..(vecs[c].len - 1) : idx + 1 \in DOMAIN vecs[c].data

\* C22 witness: reserve(2) on a full column of one element, which made the
\* capacity max(2 * 1, 1 + 2) = 3.
C22_Witness ==
    /\ vop.op = "reserve"
    /\ \E c \in Cols :
           /\ vecs[c].elem_layout # 0
           /\ vecs[c].len = 1
           /\ vecs[c].cap = 3

----------------------------------------------------------------------------
(* Components *)

\* Option<T>
None == [some |-> FALSE]

Some(x) == [some |-> TRUE, val |-> x]

\* The component types of a run, with what Layout::new::<C>() and
\* needs_drop::<C>() give for each.
Types == {"Position", "Name"}

LayoutOf(t) ==
    IF t = "Position" THEN [size |-> 8, align |-> 4] ELSE [size |-> 24, align |-> 8]

NeedsDrop(t) == t = "Name"

\* The archetypes that may hold a column of a component.
ArchetypeIds == {0}

\* ComponentInfo::new::<C>()
ComponentInfo_new(t) ==
    [ type_id   |-> t,
      layout    |-> LayoutOf(t),
      drop      |-> NeedsDrop(t),
      member_of |-> {} ]

\* Slab::new()
Slab_new == [entries |-> << >>, next |-> 0]

\* Slab::get(key)
Slab_get(slab, key) ==
    IF key < Len(slab.entries) /\ slab.entries[key + 1].occupied
    THEN Some(slab.entries[key + 1].val)
    ELSE None

\* Slab::insert(val): takes the key at the head of the vacant list, or the next
\* index when no entry is vacant.
Slab_insert(slab, val) ==
    LET key == slab.next IN
    IF key = Len(slab.entries)
    THEN [ slab |-> [entries |-> Append(slab.entries, [occupied |-> TRUE, val |-> val]),
                     next    |-> key + 1],
           key  |-> key ]
    ELSE [ slab |-> [entries |-> [slab.entries EXCEPT ![key + 1] =
                                      [occupied |-> TRUE, val |-> val]],
                     next    |-> slab.entries[key + 1].next],
           key  |-> key ]

\* Slab::try_remove(key): an occupied entry becomes the head of the vacant list.
Slab_try_remove(slab, key) ==
    IF key < Len(slab.entries) /\ slab.entries[key + 1].occupied
    THEN [ slab |-> [entries |-> [slab.entries EXCEPT ![key + 1] =
                                      [occupied |-> FALSE, next |-> slab.next]],
                     next    |-> key],
           out  |-> Some(slab.entries[key + 1].val) ]
    ELSE [ slab |-> slab, out |-> None ]

\* Components::new
Components_new == [infos |-> Slab_new, by_typeid |-> << >>]

\* Components::get
get(c, id) == Slab_get(c.infos, id)

\* Components::add_info
add_info(infos, info) ==
    LET r == Slab_insert(infos, info) IN [infos |-> r.slab, id |-> r.key]

\* init_component as it would be if it did not look the type up first.
init_component_no_lookup(c, t) ==
    LET r == add_info(c.infos, ComponentInfo_new(t))
    IN  [ c  |-> [infos     |-> r.infos,
                  by_typeid |-> [u \in DOMAIN c.by_typeid \cup {t} |->
                                    IF u = t THEN r.id ELSE c.by_typeid[u]]],
          id |-> r.id ]

\* Components::init_component::<C>()
init_component(c, t) ==
    IF t \in DOMAIN c.by_typeid
    THEN [c |-> c, id |-> c.by_typeid[t]]
    ELSE LET r == add_info(c.infos, ComponentInfo_new(t))
         IN  [ c  |-> [infos     |-> r.infos,
                       by_typeid |-> [u \in DOMAIN c.by_typeid \cup {t} |->
                                         IF u = t THEN r.id ELSE c.by_typeid[u]]],
               id |-> r.id ]

\* Components::add
add(c, info) ==
    LET r == add_info(c.infos, info)
    IN  [c |-> [c EXCEPT !.infos = r.infos], id |-> r.id]

\* Components::remove
remove(c, id) ==
    LET r == Slab_try_remove(c.infos, id)
    IN  [c |-> [c EXCEPT !.infos = r.slab], out |-> r.out]

\* An archetype takes a column of component id: it enters member_of through
\* Components::get_debug_checked_mut.
insert_member(c, id, a) ==
    [c EXCEPT !.infos.entries[id + 1].val.member_of = @ \cup {a}]

\* The ids that hold a ComponentInfo.
OccupiedIds(c) ==
    {k \in 0..(Len(c.infos.entries) - 1) : c.infos.entries[k + 1].occupied}

\* Whether an insertion fits the bound on the slab's size.
HasRoom(c) ==
    c.infos.next < Len(c.infos.entries) \/ Len(c.infos.entries) < MaxComponents

RegInit ==
    /\ components = Components_new
    /\ issued = {}
    /\ rop = [op |-> "none"]

RegInitComponent(t) ==
    LET r == init_component(components, t) IN
    /\ t \in DOMAIN components.by_typeid \/ HasRoom(components)
    /\ components' = r.c
    /\ issued' = issued \cup {r.id}
    /\ rop' = [op |-> "init_component", type |-> t, ret |-> r.id,
               allocated |-> t \notin DOMAIN components.by_typeid]
    /\ UNCHANGED <<vecVars, worldVars, boolVars>>

RegAdd(t) ==
    LET r == add(components, ComponentInfo_new(t)) IN
    /\ HasRoom(components)
    /\ components' = r.c
    /\ issued' = issued \cup {r.id}
    /\ rop' = [op |-> "add", type |-> t, ret |-> r.id, allocated |-> TRUE]
    /\ UNCHANGED <<vecVars, worldVars, boolVars>>

RegRemove(id) ==
    LET r == remove(components, id) IN
    /\ components' = r.c
    /\ rop' = [op |-> "remove", id |-> id, ret |-> r.out]
    /\ UNCHANGED <<issued, vecVars, worldVars, boolVars>>

RegInsertMember(id, a) ==
    /\ id \in OccupiedIds(components)
    /\ a \notin get(components, id).val.member_of
    /\ components' = insert_member(components, id, a)
    /\ rop' = [op |-> "insert_member", id |-> id]
    /\ UNCHANGED <<issued, vecVars, worldVars, boolVars>>

NextReg ==
    \/ \E t \in Types : RegInitComponent(t)
    \/ \E t \in Types : RegAdd(t)
    \/ \E id \in 0..MaxComponents : RegRemove(id)
    \/ \E id \in 0..(MaxComponents - 1), a \in ArchetypeIds : RegInsertMember(id, a)

(* Claims about Components *)

Allocates(r) == r.op \in {"init_component", "add"} /\ r.allocated

\* C2: a registration that allocates never returns an id that a registration
\* returned before: ids are not reused after a removal.
C2_IdNeverReused ==
    [][Allocates(rop') => rop'.ret \notin issued]_vars

\* C3: remove(id) on a component that some archetype references leaves the
\* registry unchanged.
C3_RemoveRefusedWhileReferenced ==
    [][(/\ rop'.op = "remove"
        /\ get(components, rop'.id).some
        /\ get(components, rop'.id).val.member_of # {}) =>
            components' = components]_vars

\* C21: the id init_component returns for a type resolves, through get, to a
\* ComponentInfo of that type, and no two types map to the same id.
C21_TypeIdConsistent ==
    /\ rop.op = "init_component" =>
           /\ get(components, rop.ret).some
           /\ get(components, rop.ret).val.type_id = rop.type
    /\ \A t \in DOMAIN components.by_typeid, u \in DOMAIN components.by_typeid :
           t # u => components.by_typeid[t] # components.by_typeid[u]

\* C4: init_component of a type seen before returns the id of the first call
\* (the type's entry in by_typeid never changes) and leaves the registry as it
\* is; for a type not seen before it returns an id that held no component and
\* records there the ComponentInfo of the type, leaving the others alone.
C4_InitComponentIdempotent ==
    [][/\ \A t \in DOMAIN components.by_typeid :
             /\ t \in DOMAIN components'.by_typeid
             /\ components'.by_typeid[t] = components.by_typeid[t]
       /\ rop'.op = "init_component" =>
             LET t  == rop'.type
                 id == rop'.ret
             IN  IF t \in DOMAIN components.by_typeid
                 THEN /\ id = components.by_typeid[t]
                      /\ components' = components
                 ELSE /\ id \notin OccupiedIds(components)
                      /\ OccupiedIds(components') = OccupiedIds(components) \cup {id}
                      /\ get(components', id).val.type_id = t
                      /\ get(components', id).val.layout = LayoutOf(t)
                      /\ get(components', id).val.drop = NeedsDrop(t)
                      /\ get(components', id).val.member_of = {}
                      /\ components'.by_typeid[t] = id
                      /\ \A k \in OccupiedIds(components) :
                             get(components', k) = get(components, k)]_vars

\* C4 witness: a second init_component of a registered type returned its id.
C4_Witness ==
    /\ rop.op = "init_component"
    /\ ~rop.allocated
    /\ get(components, rop.ret).some
    /\ get(components, rop.ret).val.type_id = rop.type

----------------------------------------------------------------------------
(* World: the event cascade of examples/hello_world.rs *)

\* struct A; struct B; struct C;
Events == {"A", "B", "C"}

\* The events each system sends, in the order of its body.
get_a_send_b_once == << "B" >>

get_a_send_b == << "B", "B" >>

get_b_send_c == << "C", "C" >>

get_c_send_a == << "A" >>

get_c == << >>

SystemNames == {"get_a_send_b", "get_b_send_c", "get_c"}

\* The Sender<E> calls of a system's body.
Body(sys) ==
    CASE sys = "get_a_send_b" -> get_a_send_b
      [] sys = "get_b_send_c" -> get_b_send_c
      [] sys = "get_c"        -> get_c

\* The Receiver<E> parameter of a system.
Receives(sys) ==
    CASE sys = "get_a_send_b" -> "A"
      [] sys = "get_b_send_c" -> "B"
      [] sys = "get_c"        -> "C"

Range(f) == {f[i] : i \in DOMAIN f}

Top(stack) == stack[Len(stack)]

Pop(stack) == SubSeq(stack, 1, Len(stack) - 1)

\* World::new()
WorldInit ==
    /\ systems = << >>
    /\ ev_stack = << >>
    /\ call_stack = << >>
    /\ ev_count = [e \in Events |-> 0]
    /\ sent = {}
    /\ log = << >>
    /\ wpc = [at |-> "idle", sends |-> 0, top |-> "none"]

\* World::add_system; as in main, the systems are registered before the sends.
WorldAddSystem(sys) ==
    /\ wpc.at = "idle"
    /\ wpc.sends = 0
    /\ sys \notin Range(systems)
    /\ systems' = Append(systems, sys)
    /\ UNCHANGED <<ev_stack, call_stack, ev_count, sent, log, wpc, vecVars, regVars, boolVars>>

\* World::send: pushes the event and, no dispatch being in progress, starts one.
WorldSend(e) ==
    /\ wpc.at = "idle"
    /\ wpc.sends < MaxSends
    /\ ev_stack' = << [type |-> e, n |-> 1] >>
    /\ ev_count' = [x \in Events |-> IF x = e THEN 1 ELSE 0]
    /\ sent' = {[type |-> e, n |-> 1]}
    /\ log' = << >>
    /\ wpc' = [at |-> "send", sends |-> wpc.sends + 1, top |-> e]
    /\ UNCHANGED <<systems, call_stack, vecVars, regVars, boolVars>>

\* Dispatch pops the most recently pushed event.
WorldPop ==
    /\ wpc.at = "send"
    /\ ev_stack # << >>
    /\ Len(call_stack) < MaxDepth
    /\ call_stack' = Append(call_stack, [kind |-> "dispatch", ev |-> Top(ev_stack), next |-> 1])
    /\ ev_stack' = Pop(ev_stack)
    /\ UNCHANGED <<systems, ev_count, sent, log, wpc, vecVars, regVars, boolVars>>

\* Dispatch takes the next system in registration order and invokes it when it
\* is subscribed to the event.
WorldInvoke ==
    /\ call_stack # << >>
    /\ Top(call_stack).kind = "dispatch"
    /\ Top(call_stack).next <= Len(systems)
    /\ LET d   == Top(call_stack)
           sys == systems[d.next]
           d2  == [d EXCEPT !.next = d.next + 1]
       IN  IF Receives(sys) = d.ev.type
           THEN /\ Len(call_stack) < MaxDepth
                /\ call_stack' = Append(Append(Pop(call_stack), d2),
                                        [kind |-> "system", sys |-> sys, pc |-> 1])
                /\ log' = Append(log, [sys |-> sys, ev |-> d.ev])
           ELSE /\ call_stack' = Append(Pop(call_stack), d2)
                /\ log' = log
    /\ UNCHANGED <<systems, ev_stack, ev_count, sent, wpc, vecVars, regVars, boolVars>>

\* Sender::send from a running system: the event is pushed, and it is drained
\* before the system goes on.
WorldSystemSend ==
    /\ call_stack # << >>
    /\ Top(call_stack).kind = "system"
    /\ ev_stack = << >>
    /\ LET f == Top(call_stack)
           b == Body(f.sys)
       IN  /\ f.pc <= Len(b)
           /\ LET e == [type |-> b[f.pc], n |-> ev_count[b[f.pc]] + 1]
              IN  /\ ev_stack' = Append(ev_stack, e)
                  /\ ev_count' = [ev_count EXCEPT ![e.type] = e.n]
                  /\ sent' = sent \cup {e}
           /\ call_stack' = Append(Pop(call_stack), [f EXCEPT !.pc = f.pc + 1])
    /\ UNCHANGED <<systems, log, wpc, vecVars, regVars, boolVars>>

\* A system returns to the dispatch that invoked it.
WorldSystemReturn ==
    /\ call_stack # << >>
    /\ Top(call_stack).kind = "system"
    /\ ev_stack = << >>
    /\ Top(call_stack).pc > Len(Body(Top(call_stack).sys))
    /\ call_stack' = Pop(call_stack)
    /\ UNCHANGED <<systems, ev_stack, ev_count, sent, log, wpc, vecVars, regVars, boolVars>>

\* Every system has had its turn: the dispatch of this event is over.
WorldDispatchDone ==
    /\ call_stack # << >>
    /\ Top(call_stack).kind = "dispatch"
    /\ Top(call_stack).next > Len(systems)
    /\ call_stack' = Pop(call_stack)
    /\ UNCHANGED <<systems, ev_stack, ev_count, sent, log, wpc, vecVars, regVars, boolVars>>

\* World::send returns once the stack is empty.
WorldSendReturn ==
    /\ wpc.at = "send"
    /\ call_stack = << >>
    /\ ev_stack = << >>
    /\ wpc' = [wpc EXCEPT !.at = "idle"]
    /\ UNCHANGED <<systems, ev_stack, call_stack, ev_count, sent, log, vecVars, regVars, boolVars>>

\* The steps of a send in progress.
WorldStep ==
    \/ WorldPop
    \/ WorldInvoke
    \/ WorldSystemSend
    \/ WorldSystemReturn
    \/ WorldDispatchDone
    \/ WorldSendReturn

NextWorld ==
    \/ \E sys \in SystemNames : WorldAddSystem(sys)
    \/ \E e \in Events : WorldSend(e)
    \/ WorldPop
    \/ WorldInvoke
    \/ WorldSystemSend
    \/ WorldSystemReturn
    \/ WorldDispatchDone
    \/ WorldSendReturn

(* Claims about World *)

Event(type, n) == [type |-> type, n |-> n]

Invocation(sys, type, n) == [sys |-> sys, ev |-> Event(type, n)]

\* The invocations of one A, depth first: A, B1, C1, C2, B2, C3, C4.
DepthFirstOrder ==
    << Invocation("get_a_send_b", "A", 1),
       Invocation("get_b_send_c", "B", 1),
       Invocation("get_c", "C", 1),
       Invocation("get_c", "C", 2),
       Invocation("get_b_send_c", "B", 2),
       Invocation("get_c", "C", 3),
       Invocation("get_c", "C", 4) >>

IsPrefix(p, q) == Len(p) <= Len(q) /\ SubSeq(q, 1, Len(p)) = p

SendingA == Range(systems) = SystemNames /\ wpc.top = "A"

\* C5: with the three systems registered, the invocations a send of A causes
\* are at every moment a prefix of A, B1, C1, C2, B2, C3, C4, and are all of
\* them when the send returns: 1 x get_a_send_b, 2 x get_b_send_c, 4 x get_c.
C5_DepthFirstOrder ==
    SendingA =>
        /\ IsPrefix(log, DepthFirstOrder)
        /\ wpc.at = "idle" => log = DepthFirstOrder

\* C5 witness: a send of A has returned after its seven invocations.
C5_Witness ==
    /\ SendingA
    /\ wpc.at = "idle"
    /\ Len(log) = 7
    /\ Cardinality({i \in DOMAIN log : log[i].sys = "get_c"}) = 4

Delivered ==
    \A e \in sent : \A i \in DOMAIN systems :
        Receives(systems[i]) = e.type =>
            \E j \in DOMAIN log : log[j] = [sys |-> systems[i], ev |-> e]

\* C6: a send in progress eventually returns, and when it has returned the
\* stack of pending events is empty, no system is active, and every event sent
\* in the cascade has been delivered to each system subscribed to its type.
C6_SendTerminates ==
    /\ (wpc.at = "send") ~> (wpc.at = "idle")
    /\ [](wpc.at = "idle" =>
            /\ ev_stack = << >>
            /\ call_stack = << >>
            /\ Delivered)

\* C6 witness: a send of A to the three systems has returned, its seven events
\* delivered.
C6_Witness ==
    /\ SendingA
    /\ wpc.at = "idle"
    /\ Cardinality(sent) = 7
    /\ Delivered
    /\ ev_stack = << >>

----------------------------------------------------------------------------
(* BoolExpr *)

\* The variables of the doc examples.
A == 0
B == 1
C == 2
D == 3

\* The variables the drawn expressions are over: those of the example of eval.
Vars == {A, B}

\* The variables of the example of is_disjoint.
DocVars == {A, B, C, D}

\* BitSet::iter, ascending.
RECURSIVE iter(_)
iter(set) ==
    IF set = {} THEN << >>
    ELSE LET m == CHOOSE x \in set : \A y \in set : x <= y
         IN  << m >> \o iter(set \ {m})

\* BitSet::is_disjoint
BitSet_is_disjoint(a, b) == a \cap b = {}

\* Ands::new
Ands_new == [vars |-> {}, negated_vars |-> {}]

\* BoolExpr::zero
zero == [ands |-> << >>]

\* one as it would be with `ands: vec![]`.
one_no_clause == [ands |-> << >>]

\* BoolExpr::one
one == [ands |-> << Ands_new >>]

\* BoolExpr::with
with(value) == [ands |-> << [vars |-> {value}, negated_vars |-> {}] >>]

\* without as it would be if it inserted the value into vars.
without_in_vars(value) == [ands |-> << [vars |-> {value}, negated_vars |-> {}] >>]

\* BoolExpr::without
without(value) == [ands |-> << [vars |-> {}, negated_vars |-> {value}] >>]

\* The inner loops of eval on one clause: whether the clause is satisfied.
\* get_var is the set of the variables that are true.
eval_ands(ands, get_var) ==
    /\ \A i \in DOMAIN iter(ands.vars) : iter(ands.vars)[i] \in get_var
    /\ \A i \in DOMAIN iter(ands.negated_vars) : iter(ands.negated_vars)[i] \notin get_var

\* BoolExpr::eval
eval(self, get_var) ==
    \E i \in DOMAIN self.ands : eval_ands(self.ands[i], get_var)

\* The body of the loops of and: the union of two clauses.
and_clause(this, other) ==
    [ vars         |-> this.vars \cup other.vars,
      negated_vars |-> this.negated_vars \cup other.negated_vars ]

\* and as it would be without `new_ands.negated_vars |= &other.negated_vars`.
and_vars_only(self, other) ==
    LET n    == Len(self.ands)
        m    == Len(other.ands)
        prod == [k \in 1..(n * m) |->
                    [ vars         |-> self.ands[((k - 1) \div m) + 1].vars
                                         \cup other.ands[((k - 1) % m) + 1].vars,
                      negated_vars |-> self.ands[((k - 1) \div m) + 1].negated_vars ]]
    IN  [ands |-> SelectSeq(prod,
                    LAMBDA c : BitSet_is_disjoint(c.vars, c.negated_vars))]

\* and as it would be without the `if` that skips contradictions.
and_keep_contradictions(self, other) ==
    LET n == Len(self.ands)
        m == Len(other.ands)
    IN  [ands |-> [k \in 1..(n * m) |->
                      and_clause(self.ands[((k - 1) \div m) + 1],
                                 other.ands[((k - 1) % m) + 1])]]

\* BoolExpr::and: for each clause of self, for each clause of other, their
\* union unless it is a contradiction.
and(self, other) ==
    LET n    == Len(self.ands)
        m    == Len(other.ands)
        prod == [k \in 1..(n * m) |->
                    and_clause(self.ands[((k - 1) \div m) + 1],
                               other.ands[((k - 1) % m) + 1])]
    IN  [ands |-> SelectSeq(prod,
                    LAMBDA c : BitSet_is_disjoint(c.vars, c.negated_vars))]

\* or as it would be if it took only the first clause of other.
or_first_clause(self, other) ==
    [ands |-> IF other.ands = << >> THEN self.ands
              ELSE Append(self.ands, Head(other.ands))]

\* BoolExpr::or
or(self, other) == [ands |-> self.ands \o other.ands]

\* The disjunction not builds from one clause after swapping its two sets: one
\* clause per variable of vars, then one per variable of negated_vars.
not_ors(ands) ==
    LET swapped_vars    == iter(ands.negated_vars)
        swapped_negated == iter(ands.vars)
    IN  [ands |-> [i \in 1..Len(swapped_vars) |->
                      [vars |-> {swapped_vars[i]}, negated_vars |-> {}]]
                  \o [i \in 1..Len(swapped_negated) |->
                         [vars |-> {}, negated_vars |-> {swapped_negated[i]}]]]

\* not_ors as it would be without the mem::swap.
not_ors_no_swap(ands) ==
    LET kept_vars    == iter(ands.vars)
        kept_negated == iter(ands.negated_vars)
    IN  [ands |-> [i \in 1..Len(kept_vars) |->
                      [vars |-> {kept_vars[i]}, negated_vars |-> {}]]
                  \o [i \in 1..Len(kept_negated) |->
                         [vars |-> {}, negated_vars |-> {kept_negated[i]}]]]

\* The loop of not over the clauses left to negate.
RECURSIVE not_loop(_, _)
not_loop(res, rest) ==
    IF rest = << >> THEN res
    ELSE not_loop(and(res, not_ors(Head(rest))), Tail(rest))

\* not as it would be without the mem::swap.
RECURSIVE not_loop_no_swap(_, _)
not_loop_no_swap(res, rest) ==
    IF rest = << >> THEN res
    ELSE not_loop_no_swap(and(res, not_ors_no_swap(Head(rest))), Tail(rest))

not_no_swap(self) == not_loop_no_swap(one, self.ands)

\* BoolExpr::not
not(self) == not_loop(one, self.ands)

\* xor as it would be with only its first half, self AND NOT other.
xor_first_half(self, other) == and(self, not(other))

\* BoolExpr::xor
xor(self, other) == or(and(self, not(other)), and(other, not(self)))

\* The test of is_disjoint on one pair of clauses: a contradiction within this,
\* within other, or between the two.
is_disjoint_pair(this, other) ==
    \/ ~BitSet_is_disjoint(this.vars, this.negated_vars)
    \/ ~BitSet_is_disjoint(other.vars, other.negated_vars)
    \/ ~BitSet_is_disjoint(this.vars, other.negated_vars)
    \/ ~BitSet_is_disjoint(other.vars, this.negated_vars)

\* is_disjoint as it would be with `any` in place of the inner `all`.
is_disjoint_any(self, other) ==
    \A i \in DOMAIN self.ands :
        \E j \in DOMAIN other.ands : is_disjoint_pair(self.ands[i], other.ands[j])

\* is_disjoint as it would be without `!this.vars.is_disjoint(&other.negated_vars)`.
is_disjoint_no_vars_check(self, other) ==
    \A i \in DOMAIN self.ands :
        \A j \in DOMAIN other.ands :
            \/ ~BitSet_is_disjoint(self.ands[i].vars, self.ands[i].negated_vars)
            \/ ~BitSet_is_disjoint(other.ands[j].vars, other.ands[j].negated_vars)
            \/ ~BitSet_is_disjoint(other.ands[j].vars, self.ands[i].negated_vars)

\* is_disjoint as it would be without `!other.vars.is_disjoint(&this.negated_vars)`.
is_disjoint_no_negated_check(self, other) ==
    \A i \in DOMAIN self.ands :
        \A j \in DOMAIN other.ands :
            \/ ~BitSet_is_disjoint(self.ands[i].vars, self.ands[i].negated_vars)
            \/ ~BitSet_is_disjoint(other.ands[j].vars, other.ands[j].negated_vars)
            \/ ~BitSet_is_disjoint(self.ands[i].vars, other.ands[j].negated_vars)

\* BoolExpr::is_disjoint
is_disjoint(self, other) ==
    \A i \in DOMAIN self.ands :
        \A j \in DOMAIN other.ands : is_disjoint_pair(self.ands[i], other.ands[j])

\* The clauses and/with/without can build over Vars: and drops contradictions.
Clauses ==
    {c \in [vars : SUBSET Vars, negated_vars : SUBSET Vars] :
        BitSet_is_disjoint(c.vars, c.negated_vars)}

\* The expressions of n clauses; or builds every one of them.
FormulasOf(n) == {[ands |-> a] : a \in [1..n -> Clauses]}

\* The expressions of at most MaxClauses clauses.
Formulas == UNION {FormulasOf(n) : n \in 0..MaxClauses}

\* The pairs of expressions of at most MaxClauses clauses together.
Operands ==
    UNION {FormulasOf(nm[1]) \X FormulasOf(nm[2]) :
              nm \in {x \in (0..MaxClauses) \X (0..MaxClauses) : x[1] + x[2] <= MaxClauses}}

\* The assignments of the variables: the sets of the true ones.
Assignments == SUBSET Vars

\* The assignments of the variables of the example of is_disjoint.
DocAssignments == SUBSET DocVars

BoolInit ==
    /\ expr = zero
    /\ arg = zero
    /\ result = zero
    /\ with_value = 0
    /\ answer = FALSE
    /\ bop = "init"

\* F.and(&G)
BoolAnd ==
    /\ bop = "init"
    /\ \E FG \in Operands :
           /\ expr' = FG[1]
           /\ arg' = FG[2]
           /\ result' = and(FG[1], FG[2])
    /\ bop' = "and"
    /\ UNCHANGED <<with_value, answer, vecVars, regVars, worldVars>>

\* F.or(&G)
BoolOr ==
    /\ bop = "init"
    /\ \E FG \in Operands :
           /\ expr' = FG[1]
           /\ arg' = FG[2]
           /\ result' = or(FG[1], FG[2])
    /\ bop' = "or"
    /\ UNCHANGED <<with_value, answer, vecVars, regVars, worldVars>>

\* F.not()
BoolNot ==
    /\ bop = "init"
    /\ \E F \in Formulas :
           /\ expr' = F
           /\ result' = not(F)
    /\ bop' = "not"
    /\ UNCHANGED <<arg, with_value, answer, vecVars, regVars, worldVars>>

\* F.xor(&G)
BoolXor ==
    /\ bop = "init"
    /\ \E FG \in Operands :
           /\ expr' = FG[1]
           /\ arg' = FG[2]
           /\ result' = xor(FG[1], FG[2])
    /\ bop' = "xor"
    /\ UNCHANGED <<with_value, answer, vecVars, regVars, worldVars>>

\* The calls of the doc example of is_disjoint, on A, B, C, D.
DocOperands ==
    { << with(A), with(B) >>,
      << with(A), without(A) >>,
      << and(with(A), without(A)), and(with(C), with(D)) >> }

\* F.is_disjoint(&G)
BoolIsDisjoint ==
    /\ bop = "init"
    /\ \E FG \in Operands \cup DocOperands :
           /\ expr' = FG[1]
           /\ arg' = FG[2]
           /\ answer' = is_disjoint(FG[1], FG[2])
    /\ bop' = "is_disjoint"
    /\ UNCHANGED <<result, with_value, vecVars, regVars, worldVars>>

\* BoolExpr::with(X)
BoolWith ==
    /\ bop = "init"
    /\ \E x \in DocVars :
           /\ with_value' = x
           /\ result' = with(x)
    /\ bop' = "with"
    /\ UNCHANGED <<expr, arg, answer, vecVars, regVars, worldVars>>

\* BoolExpr::without(X)
BoolWithout ==
    /\ bop = "init"
    /\ \E x \in DocVars :
           /\ with_value' = x
           /\ result' = without(x)
    /\ bop' = "without"
    /\ UNCHANGED <<expr, arg, answer, vecVars, regVars, worldVars>>

NextBool ==
    \/ BoolAnd
    \/ BoolOr
    \/ BoolNot
    \/ BoolXor
    \/ BoolIsDisjoint
    \/ BoolWith
    \/ BoolWithout

\* The expressions the constructors return.
Atoms == {zero, one} \cup {with(x) : x \in Vars} \cup {without(x) : x \in Vars}

\* Two expressions of at most MaxClauses clauses together.
Fits(self, other) == Len(self.ands) + Len(other.ands) <= MaxClauses

\* A program builds expressions step by step: expr is the expression it holds,
\* arg a second one.  A constructor call makes the second expression.
BuildAtom ==
    /\ \E atom \in Atoms :
           /\ Fits(expr, atom)
           /\ arg' = atom
    /\ bop' = "build"
    /\ UNCHANGED <<expr, result, with_value, answer, vecVars, regVars, worldVars>>

\* expr.clone() becomes the second expression.
BuildClone ==
    /\ Fits(expr, expr)
    /\ arg' = expr
    /\ bop' = "build"
    /\ UNCHANGED <<expr, result, with_value, answer, vecVars, regVars, worldVars>>

\* mem::swap of the two expressions.
BuildSwap ==
    /\ expr' = arg
    /\ arg' = expr
    /\ bop' = "build"
    /\ UNCHANGED <<result, with_value, answer, vecVars, regVars, worldVars>>

\* expr = expr.and(&arg)
BuildAnd ==
    /\ Fits(and(expr, arg), arg)
    /\ expr' = and(expr, arg)
    /\ bop' = "build"
    /\ UNCHANGED <<arg, result, with_value, answer, vecVars, regVars, worldVars>>

\* expr = expr.or(&arg)
BuildOr ==
    /\ Fits(or(expr, arg), arg)
    /\ expr' = or(expr, arg)
    /\ bop' = "build"
    /\ UNCHANGED <<arg, result, with_value, answer, vecVars, regVars, worldVars>>

\* expr = expr.not()
BuildNot ==
    /\ Fits(not(expr), arg)
    /\ expr' = not(expr)
    /\ bop' = "build"
    /\ UNCHANGED <<arg, result, with_value, answer, vecVars, regVars, worldVars>>

\* expr = expr.xor(&arg)
BuildXor ==
    /\ Fits(xor(expr, arg), arg)
    /\ expr' = xor(expr, arg)
    /\ bop' = "build"
    /\ UNCHANGED <<arg, result, with_value, answer, vecVars, regVars, worldVars>>

NextBuild ==
    \/ BuildAtom
    \/ BuildClone
    \/ BuildSwap
    \/ BuildAnd
    \/ BuildOr
    \/ BuildNot
    \/ BuildXor

(* Claims about BoolExpr *)

\* C7: expr.and(arg) evaluates to true exactly when expr and arg both do, under every
\* assignment, whether or not and dropped contradictory clauses.
C7_AndIsConjunction ==
    bop = "and" =>
        \A a \in Assignments : eval(result, a) = (eval(expr, a) /\ eval(arg, a))

\* C7 witness: and of an expression of several clauses dropped a contradictory
\* clause and kept another.
C7_Witness ==
    /\ bop = "and"
    /\ Len(expr.ands) > 1 /\ Len(arg.ands) > 0
    /\ Len(result.ands) > 0
    /\ Len(result.ands) < Len(expr.ands) * Len(arg.ands)

\* C8: expr.not() evaluates to the negation of expr under every assignment.
C8_NotIsNegation ==
    bop = "not" =>
        \A a \in Assignments : eval(result, a) = ~eval(expr, a)

\* C8 witness: not of an expression of several clauses, with several clauses.
C8_Witness ==
    /\ bop = "not"
    /\ Len(expr.ands) > 1
    /\ Len(result.ands) > 1
    /\ \E i \in DOMAIN expr.ands : expr.ands[i].vars # {} /\ expr.ands[i].negated_vars # {}

\* C9: expr.xor(arg) evaluates to true exactly when expr and arg evaluate differently.
C9_XorIsInequality ==
    bop = "xor" =>
        \A a \in Assignments : eval(result, a) = (eval(expr, a) # eval(arg, a))

\* C9 witness: the doc example, with(A).xor(with(B)): true exactly under the
\* assignments that make one of A and B true.
C9_Witness ==
    /\ bop = "xor"
    /\ expr = with(0) /\ arg = with(1)
    /\ ~eval(result, {}) /\ eval(result, {0}) /\ eval(result, {1}) /\ ~eval(result, {0, 1})

\* C10: expr.or(arg) evaluates to true exactly when expr or arg does.
C10_OrIsDisjunction ==
    bop = "or" =>
        \A a \in Assignments : eval(result, a) = (eval(expr, a) \/ eval(arg, a))

\* C10 witness: or of an expression of several clauses with one that alone is
\* true under some assignment.
C10_Witness ==
    /\ bop = "or"
    /\ Len(expr.ands) > 1 /\ Len(arg.ands) > 0
    /\ \E a \in Assignments : ~eval(expr, a) /\ eval(arg, a) /\ eval(result, a)

\* Some assignment makes both the operands of the last call true.
BothSatisfied == \E a \in DocAssignments : eval(expr, a) /\ eval(arg, a)

\* C11: is_disjoint is sound: when some assignment makes expr and arg both
\* true, expr.is_disjoint(arg) returns false.
C11_IsDisjointSound ==
    bop = "is_disjoint" => (BothSatisfied => ~answer)

\* C11 witness: is_disjoint returned false on operands of which some pair of
\* clauses contradicts and another pair is satisfied together.
C11_Witness ==
    /\ bop = "is_disjoint"
    /\ BothSatisfied
    /\ ~answer
    /\ \E i \in DOMAIN expr.ands, j \in DOMAIN arg.ands :
           is_disjoint_pair(expr.ands[i], arg.ands[j])

\* C12: for distinct variables x and y, with(x).is_disjoint(without(x)) is
\* true, with(x).is_disjoint(with(y)) is false, and with(x).and(without(x)) is
\* disjoint with whatever expression it is compared to.
C12_IsDisjointExamples ==
    bop = "is_disjoint" =>
        \A x \in DocVars :
            /\ (expr = with(x) /\ arg = without(x)) => answer
            /\ \A y \in DocVars \ {x} : (expr = with(x) /\ arg = with(y)) => ~answer
            /\ expr = and(with(x), without(x)) => answer

\* C12 witness: the second call of the doc example, A against not A.
C12_Witness ==
    /\ bop = "is_disjoint"
    /\ expr = with(A) /\ arg = without(A)
    /\ answer

\* C13: with(X) is true exactly under the assignments that make X true, and
\* without(X) exactly under those that make X false.
C13_WithWithoutEval ==
    /\ bop = "with" =>
           \A a \in DocAssignments : eval(result, a) = (with_value \in a)
    /\ bop = "without" =>
           \A a \in DocAssignments : eval(result, a) = (with_value \notin a)

\* C13 witness: without(B), true under {A} and false under {B}.
C13_Witness ==
    /\ bop = "without"
    /\ with_value = B
    /\ eval(result, {A}) /\ ~eval(result, {B})

\* C15: zero is false and one is true under every assignment; or with zero on
\* either side evaluates like the other operand, and so does and with one.
C15_ZeroOneIdentities ==
    /\ \A a \in Assignments : ~eval(zero, a) /\ eval(one, a)
    /\ (bop = "or" /\ expr = zero) => \A a \in Assignments : eval(result, a) = eval(arg, a)
    /\ (bop = "or" /\ arg = zero) => \A a \in Assignments : eval(result, a) = eval(expr, a)
    /\ (bop = "and" /\ expr = one) => \A a \in Assignments : eval(result, a) = eval(arg, a)
    /\ (bop = "and" /\ arg = one) => \A a \in Assignments : eval(result, a) = eval(expr, a)

\* C15 witness: an expression of several clauses and one, which gave an
\* expression that is neither always true nor always false.
C15_Witness ==
    /\ bop = "and"
    /\ arg = one
    /\ Len(expr.ands) > 1
    /\ \E a \in Assignments : eval(result, a)
    /\ \E a \in Assignments : ~eval(result, a)

\* C19: is_disjoint is exact and symmetric: expr.is_disjoint(arg) is true
\* exactly when no assignment makes expr and arg both true, and
\* arg.is_disjoint(expr) returns the same.
C19_IsDisjointExact ==
    bop = "is_disjoint" =>
        /\ answer = ~BothSatisfied
        /\ answer = is_disjoint(arg, expr)

\* C19 witness: is_disjoint returned true on two expressions that are each true
\* under some assignment, the first of several clauses.
C19_Witness ==
    /\ bop = "is_disjoint"
    /\ answer
    /\ Len(expr.ands) > 1
    /\ \E a \in Assignments : eval(expr, a)
    /\ \E a \in Assignments : eval(arg, a)

\* No clause of the expression requires and forbids the same variable.
NoContradiction(self) ==
    \A i \in DOMAIN self.ands :
        BitSet_is_disjoint(self.ands[i].vars, self.ands[i].negated_vars)

\* C20: every expression built from zero, one, with and without by and, or, not
\* and xor has no clause that both requires and forbids a variable.
C20_NoContradictoryClause ==
    NoContradiction(expr) /\ NoContradiction(arg)

\* C20 witness: an expression built in several steps, one of them an and that
\* met a contradiction: (A and not B) or (B and not A), and'ed with A.
C20_Witness ==
    /\ bop = "build"
    /\ arg = with(A)
    /\ expr = and(xor(with(A), with(B)), with(A))
    /\ Len(expr.ands) = 1

----------------------------------------------------------------------------
Init == VecInit /\ RegInit /\ WorldInit /\ BoolInit

SpecVec == Init /\ [][NextVec]_vars

SpecVecReserve == Init /\ [][NextVecReserve]_vars

SpecVecUnwind == Init /\ [][NextVecUnwind]_vars

InitTest == VecTestInit /\ RegInit /\ WorldInit /\ BoolInit

SpecVecTest == InitTest /\ [][NextVecTest]_vars

InitTransfer == VecTransferInit /\ RegInit /\ WorldInit /\ BoolInit

SpecVecTransfer == InitTransfer /\ [][NextVecTransfer]_vars

SpecReg == Init /\ [][NextReg]_vars

SpecWorld == Init /\ [][NextWorld]_vars

SpecBool == Init /\ [][NextBool]_vars

SpecBuild == Init /\ [][NextBuild]_vars

\* A send in progress runs on: the cascade is synchronous code.
SpecWorldFair == Init /\ [][NextWorld]_vars /\ WF_vars(WorldStep)

====
